---------------------------- MODULE Spec2Model ----------------------------
(***************************************************************************)
(* A model of the Session object of trek-rs/sessions                      *)
(* (sessions-core/src/session.rs) together with the map of the in-memory  *)
(* store (src/memory_store.rs).                                            *)
(*                                                                         *)
(* A Session is Clone: its clones ("handles") share the status counter,   *)
(* the dirty flag and the data container (all behind Arc) and each own a   *)
(* copy of the id.  Every handle is driven by one task; a task's position  *)
(* inside a method is pc[h].  The await points of save/renew/destroy are   *)
(* the Storage calls; every atomic access to the shared fields is a step   *)
(* of its own, so that the tasks interleave exactly where threads can.     *)
(*                                                                         *)
(* The data lock (RwLock) is modelled with its guards and its poisoning:   *)
(* data() and data_mut() hand a guard to the caller, who may keep it, write *)
(* through it, drop it, or panic holding it; a panic under the write guard *)
(* (of the caller, or of a Serialize impl run by set) poisons the lock, and *)
(* every later data() / data_mut() returns the error.                      *)
(*                                                                         *)
(* The in-memory store (MemoryStore::get, remove, save) is driven by tasks *)
(* of its own, with the map's lock and the lock of the session that get    *)
(* builds; SpecStore runs these tasks, Spec and SpecData run the Session.   *)
(***************************************************************************)
EXTENDS Naturals, FiniteSets, Sequences

-----------------------------------------------------------------------------
(* Bounds of the model *)

\* number of handles (the original session and its clones)
NumHandles == 2

\* ids 1..MaxIds can be handed out; id 1 is the session's first id
MaxIds == 3

\* total number of method calls made in a run
MaxCalls == 3

\* number of tasks that call the in-memory store
NumTasks == 2

\* session ids 0..MaxSid are presented to the in-memory store
MaxSid == 1

\* total number of calls made on the in-memory store in a run
MaxStoreOps == 3

Handles == 1..NumHandles
Ids == 1..MaxIds
Keys == {"k1", "k2"}

-----------------------------------------------------------------------------
(* Status values, session.rs line 21 *)

Created == 0
Saved == 1
Renewed == 2
Destroyed == 3

-----------------------------------------------------------------------------
(* Typed values and their encoding (to_value / from_value)                 *)

\* The Rust types T the generic methods are called with.  "Opaque" stands
\* for a type that has no encoding in the value format (to_value fails on
\* it and nothing decodes to it).
Types == {"i64", "String", "Opaque"}

\* a value whose Serialize impl panics when to_value runs it
Panics(v) == v.ty = "Panics"

\* the values passed to set
TypedVals ==
    { [ty |-> "i64", x |-> "1"], [ty |-> "i64", x |-> "2"],
      [ty |-> "String", x |-> "a"], [ty |-> "Opaque", x |-> "o"],
      [ty |-> "Panics", x |-> "p"] }

\* Result of an encoding or decoding: ok tells success, val holds the result
Fail == [ok |-> FALSE, val |-> [ty |-> "", x |-> ""]]
Done(v) == [ok |-> TRUE, val |-> v]

\* to_value(val): the structured value of a typed value; the tag of the
\* structured value is kept in the field ty ("Number", "String").  It is not
\* applied to a value that panics (SetInsert takes that case first).
to_value(v) ==
    CASE v.ty = "i64" -> Done([ty |-> "Number", x |-> v.x])
      [] v.ty = "String" -> Done([ty |-> "String", x |-> v.x])
      [] OTHER -> Fail

\* from_value::<T>(j): decoding of a structured value as type T
from_value(T, j) ==
    CASE T = "i64" /\ j.ty = "Number" -> Done([ty |-> "i64", x |-> j.x])
      [] T = "String" /\ j.ty = "String" -> Done([ty |-> "String", x |-> j.x])
      [] OTHER -> Fail

\* Option<T> returned by get/set/remove, and Result<()> of the others
None == [kind |-> "None", val |-> [ty |-> "", x |-> ""]]
Some(v) == [kind |-> "Some", val |-> v]
Ok == [kind |-> "Ok", val |-> [ty |-> "", x |-> ""]]
Err == [kind |-> "Err", val |-> [ty |-> "", x |-> ""]]
Pending == [kind |-> "Pending", val |-> [ty |-> "", x |-> ""]]

\* a call that did not return: its thread panicked
Panicked == [kind |-> "Panic", val |-> [ty |-> "", x |-> ""]]

\* `from_value(..).ok()`: a failed decoding is None
OkOption(r) == IF r.ok THEN Some(r.val) ELSE None

-----------------------------------------------------------------------------
(* Maps: Data (key -> structured value) and the store (id -> Data)         *)

EmptyMap == [k \in {} |-> 0]

MapInsert(m, k, v) == [x \in (DOMAIN m) \cup {k} |-> IF x = k THEN v ELSE m[x]]

MapRemove(m, k) == [x \in (DOMAIN m) \ {k} |-> m[x]]

\* `map.get(key)`, as an Option-like record
MapGet(m, k) == IF k \in DOMAIN m THEN Done(m[k]) ELSE Fail


-----------------------------------------------------------------------------
(* State *)

VARIABLES
    status,        \* Arc<AtomicUsize> shared by all handles
    data,          \* Arc<RwLock<Data>> shared by all handles
    data_status,   \* Arc<AtomicBool> shared by all handles
    hid,           \* hid[h]: the id field of handle h
    live,          \* the handles that exist
    store,         \* the Storage's map: id -> Data
    nextId,        \* the next id Storage's generator hands out
    pc,            \* pc[h]: position of the task that drives handle h
    snap,          \* snap[h]: `let data = self.data()?.clone()` in save
    prev,          \* prev[h]: `let prev = ...` in set and remove
    call,          \* call[h]: the call handle h makes or made last
    ret,           \* ret[h]: what that call returned (Pending while it runs)
    ncalls,        \* number of calls made so far
    ncas,          \* number of compare-and-swaps 0 -> 1 that succeeded
    nset,          \* number of Storage writes issued
    lastSet,       \* key -> the typed value of the last set(key, _) that no
                   \* remove(key) and no clear followed
    everDestroyed, \* the status has been Destroyed at some time
    dlock,         \* the guards held on the data RwLock between two steps
    mapLock,       \* MemoryStore: the task holding the map's write guard, or 0
    tpc,           \* MemoryStore: tpc[t], position of task t in get/remove/save
    targ,          \* MemoryStore: targ[t], the call task t makes or made last
    tsess,         \* MemoryStore: tsess[t], the session get builds and returns
    tloc,          \* MemoryStore: tloc[t], the id and state save has read
    lastSave,      \* id -> the state of the last save(id) no remove(id) followed
    nops           \* MemoryStore: number of calls made so far

\* the state of the in-memory store's tasks
mstore == << mapLock, tpc, targ, tsess, tloc, lastSave, nops >>

vars == << status, data, data_status, hid, live, store, nextId, pc, snap, prev,
           call, ret, ncalls, ncas, nset, lastSet, everDestroyed, dlock, mstore >>

\* the state of the Session and its handles
session == << status, data, data_status, hid, live, nextId, pc, snap, prev,
             call, ret, ncalls, ncas, nset, lastSet, everDestroyed, dlock >>

shared == << status, data, data_status >>

\* a Storage call, as recorded in call[h].io
Io(f, id, ok) == [f |-> f, id |-> id, ok |-> ok]

NoCall ==
    [op |-> "none", key |-> "", ty |-> "", arg |-> [ty |-> "", x |-> ""],
     st0 |-> 0, seen |-> 0, id0 |-> 0, late |-> FALSE, io |-> {}, old |-> Fail,
     had |-> {}, poi |-> FALSE]

\* the record of a call as handle h enters it: its arguments, the status and
\* the id it finds (seen: the status its own load or compare-and-swap reads),
\* whether the status has been Destroyed before, the Storage calls it issues
\* (none yet), what lastSet holds for its key, the keys the data holds and
\* whether the data lock is poisoned
Enter(h, op, key, ty, arg) ==
    [op |-> op, key |-> key, ty |-> ty, arg |-> arg,
     st0 |-> status, seen |-> status, id0 |-> hid[h], late |-> everDestroyed,
     io |-> {},
     old |-> MapGet(lastSet, key), had |-> DOMAIN data, poi |-> dlock.p]

\* The data RwLock (std::sync::RwLock<Data>): the handles holding its write
\* guard and its read guards, and whether it is poisoned (a thread panicked
\* holding the write guard).  data() and data_mut(), lines 49-56, get the
\* lock when it allows it (data_read, data_write) and then return the guard,
\* or the error of map_err when the lock is poisoned.
Unlocked == [w |-> {}, r |-> {}, p |-> FALSE]
data_read(l) == l.w = {}
data_write(l) == l.w = {} /\ l.r = {}

\* the statuses Session::new is called with: it takes any usize; every value
\* above Destroyed behaves as Destroyed + 1 does
StatusArgs == Created .. (Destroyed + 1)

\* what a caller writes through the guard of data_mut()
GuardData == {EmptyMap, MapInsert(EmptyMap, "k1", [ty |-> "Number", x |-> "1"])}

\* The tasks of the in-memory store and the ids they present
Tasks == 1..NumTasks
Sids == 0..MaxSid

\* the id of a session nobody has given an id yet
NewSid == MaxSid + 1

\* memory_store.rs line 39: Session::new(Arc::new(self.clone()))
NewSession == [id |-> NewSid, state |-> EmptyMap, status |-> "Created"]

\* the record of a call on the store: its arguments, what contains_key
\* and the lookup of get found, and what the call returned
NoTask ==
    [op |-> "none", sid |-> 0, sess |-> [id |-> 0, state |-> EmptyMap],
     has |-> FALSE, got |-> FALSE, ret |-> "none"]

\* Session::new(id, status, config), lines 33-41: the given status, empty
\* data, the flag false; the Storage is not touched
Init ==
    /\ status \in StatusArgs
    /\ data = EmptyMap
    /\ store = EmptyMap
    /\ data_status = FALSE
    /\ hid = [h \in Handles |-> 1]
    /\ live = {1}
    /\ nextId = 2
    /\ pc = [h \in Handles |-> "idle"]
    /\ snap = [h \in Handles |-> EmptyMap]
    /\ prev = [h \in Handles |-> Fail]
    /\ call = [h \in Handles |-> NoCall]
    /\ ret = [h \in Handles |-> Pending]
    /\ ncalls = 0
    /\ ncas = 0
    /\ nset = 0
    /\ lastSet = EmptyMap
    /\ everDestroyed = (status = Destroyed)
    /\ dlock = Unlocked
    /\ mapLock = 0
    /\ tpc = [t \in Tasks |-> "idle"]
    /\ targ = [t \in Tasks |-> NoTask]
    /\ tsess = [t \in Tasks |-> NewSession]
    /\ tloc = [t \in Tasks |-> [id |-> 0, state |-> EmptyMap]]
    /\ lastSave = store
    /\ nops = 0

-----------------------------------------------------------------------------
(* Helpers of the actions *)

\* a handle may start a call
CanCall(h) == h \in live /\ pc[h] = "idle" /\ ncalls < MaxCalls

\* handle h enters method op
Begin(h, op, key, ty, arg, at) ==
    /\ call' = [call EXCEPT ![h] = Enter(h, op, key, ty, arg)]
    /\ ret' = [ret EXCEPT ![h] = Pending]
    /\ pc' = [pc EXCEPT ![h] = at]
    /\ ncalls' = ncalls + 1

\* the method returns r
Return(h, r) ==
    /\ pc' = [pc EXCEPT ![h] = "idle"]
    /\ ret' = [ret EXCEPT ![h] = r]

\* handle h makes call c, which returns r in the same step
AtOnce(h, c, r) ==
    /\ call' = [call EXCEPT ![h] = c]
    /\ ret' = [ret EXCEPT ![h] = r]
    /\ ncalls' = ncalls + 1
    /\ pc' = pc

Goto(h, at) ==
    /\ pc' = [pc EXCEPT ![h] = at]
    /\ UNCHANGED ret

Issue(h, f, id, ok) == call' = [call EXCEPT ![h].io = @ \cup {Io(f, id, ok)}]

\* the status the method's load or compare-and-swap reads
See(h) == call' = [call EXCEPT ![h].seen = status]

\* handle h is inside renew, which borrows it mutably
InRenew(h) == pc[h] \in {"renew_load", "renew_remove", "renew_generate",
                         "renew_clear", "renew_store"}

\* Storage: config.set(id, data, max_age) upserts the entry, or fails
StorageSet(st, id, d, ok) == IF ok THEN MapInsert(st, id, d) ELSE st

\* Storage: config.generate() hands out an id never handed out before
StorageGenerate == nextId

\* Storage: config.remove(id) deletes the entry, or fails
StorageRemove(st, id, ok) == IF ok THEN MapRemove(st, id) ELSE st

-----------------------------------------------------------------------------
(* #[derive(Clone)]: a new handle with a copy of h's id, sharing the rest *)

Clone(h, u) ==
    /\ h \in live /\ ~InRenew(h)
    /\ u \notin live
    /\ \A w \in Handles \ live : u <= w
    /\ live' = live \cup {u}
    /\ hid' = [hid EXCEPT ![u] = hid[h]]
    /\ UNCHANGED << dlock, mstore, shared, store, nextId, pc, snap, prev, call, ret, ncalls,
                    ncas, nset, lastSet, everDestroyed >>

-----------------------------------------------------------------------------
(* Session::save, session.rs 103-109 *)

CallSave(h) ==
    /\ CanCall(h)
    /\ Begin(h, "save", "", "", NoCall.arg, "save_cas")
    /\ UNCHANGED << dlock, mstore, shared, hid, live, store, nextId, snap, prev, ncas, nset,
                    lastSet, everDestroyed >>

\* SaveCas with a swap that also succeeds on Saved (a store that is not
\* conditional on Created)
SaveCas_NotExclusive(h) ==
    /\ pc[h] = "save_cas"
    /\ IF status <= Saved
         THEN /\ status' = Saved
              /\ ncas' = ncas + 1
              /\ Goto(h, "save_read")
         ELSE /\ Return(h, Ok)
              /\ UNCHANGED << status, ncas >>
    /\ See(h)
    /\ UNCHANGED << dlock, mstore, data, data_status, hid, live, store, nextId, snap, prev,
                    ncalls, nset, lastSet, everDestroyed >>

\* line 104: status.compare_and_swap(0, 1) == 0
SaveCas(h) ==
    /\ pc[h] = "save_cas"
    /\ IF status = Created
         THEN /\ status' = Saved
              /\ ncas' = ncas + 1
              /\ Goto(h, "save_read")
         ELSE /\ Return(h, Ok)
              /\ UNCHANGED << status, ncas >>
    /\ See(h)
    /\ UNCHANGED << dlock, mstore, data, data_status, hid, live, store, nextId, snap, prev,
                    ncalls, nset, lastSet, everDestroyed >>

\* line 105, self.data()?: the read guard of the data is acquired; on a
\* poisoned lock the `?` returns the error
SaveRead(h) ==
    /\ pc[h] = "save_read"
    /\ data_read(dlock)
    /\ IF dlock.p
         THEN /\ Return(h, Err)
              /\ dlock' = dlock
         ELSE /\ Goto(h, "save_snapshot")
              /\ dlock' = [dlock EXCEPT !.r = @ \cup {h}]
    /\ UNCHANGED << mstore, shared, hid, live, store, nextId, snap, prev, call, ncalls,
                    ncas, nset, lastSet, everDestroyed >>

\* SaveSnapshot that keeps the read guard for the Storage write
SaveSnapshot_HoldsGuard(h) ==
    /\ pc[h] = "save_snapshot"
    /\ snap' = [snap EXCEPT ![h] = data]
    /\ dlock' = dlock
    /\ Goto(h, "save_set")
    /\ UNCHANGED << mstore, shared, hid, live, store, nextId, prev, call, ncalls, ncas,
                    nset, lastSet, everDestroyed >>

\* line 105, let data = (guard).clone(): the data is copied and the guard,
\* a temporary of the statement, is dropped
SaveSnapshot(h) ==
    /\ pc[h] = "save_snapshot"
    /\ snap' = [snap EXCEPT ![h] = data]
    /\ dlock' = [dlock EXCEPT !.r = @ \ {h}]
    /\ Goto(h, "save_set")
    /\ UNCHANGED << mstore, shared, hid, live, store, nextId, prev, call, ncalls, ncas,
                    nset, lastSet, everDestroyed >>

\* SaveSet that puts the status back to Created when the write fails
SaveSet_Rollback(h, ok) ==
    /\ pc[h] = "save_set"
    /\ store' = StorageSet(store, hid[h], snap[h], ok)
    /\ Issue(h, "set", hid[h], ok)
    /\ nset' = nset + 1
    /\ status' = IF ok THEN status ELSE Created
    /\ Return(h, IF ok THEN Ok ELSE Err)
    /\ UNCHANGED << dlock, mstore, data, data_status, hid, live, nextId, snap, prev, ncalls,
                    ncas, lastSet, everDestroyed >>

\* line 106: self.config.set(&self.id, data, self.max_age()).await?
SaveSet(h, ok) ==
    /\ pc[h] = "save_set"
    /\ store' = StorageSet(store, hid[h], snap[h], ok)
    /\ Issue(h, "set", hid[h], ok)
    /\ nset' = nset + 1
    /\ Return(h, IF ok THEN Ok ELSE Err)
    /\ UNCHANGED << dlock, mstore, shared, hid, live, nextId, snap, prev, ncalls, ncas,
                    lastSet, everDestroyed >>

-----------------------------------------------------------------------------
(* Session::renew, session.rs 112-120 *)

CallRenew(h) ==
    /\ CanCall(h)
    /\ \/ status >= Renewed
       \/ nextId + Cardinality({u \in Handles : InRenew(u)}) <= MaxIds
    /\ Begin(h, "renew", "", "", NoCall.arg, "renew_load")
    /\ UNCHANGED << dlock, mstore, shared, hid, live, store, nextId, snap, prev, ncas, nset,
                    lastSet, everDestroyed >>

\* line 113: if self.status.load() < 2
RenewLoad(h) ==
    /\ pc[h] = "renew_load"
    /\ IF status < Renewed THEN Goto(h, "renew_remove") ELSE Return(h, Ok)
    /\ See(h)
    /\ UNCHANGED << dlock, mstore, shared, hid, live, store, nextId, snap, prev, ncalls,
                    ncas, nset, lastSet, everDestroyed >>

\* line 114: self.config.remove(&self.id).await?
RenewRemove(h, ok) ==
    /\ pc[h] = "renew_remove"
    /\ store' = StorageRemove(store, hid[h], ok)
    /\ Issue(h, "remove", hid[h], ok)
    /\ IF ok THEN Goto(h, "renew_generate") ELSE Return(h, Err)
    /\ UNCHANGED << dlock, mstore, shared, hid, live, nextId, snap, prev, ncalls, ncas, nset,
                    lastSet, everDestroyed >>

\* line 115: self.id = self.config.generate()
RenewGenerate(h) ==
    /\ pc[h] = "renew_generate"
    /\ hid' = [hid EXCEPT ![h] = StorageGenerate]
    /\ nextId' = nextId + 1
    /\ Issue(h, "generate", StorageGenerate, TRUE)
    /\ Goto(h, "renew_clear")
    /\ UNCHANGED << dlock, mstore, shared, live, store, snap, prev, ncalls, ncas, nset,
                    lastSet, everDestroyed >>

\* line 116: self.data_mut()?.clear(); on a poisoned lock the `?` returns
\* the error, after the id has been replaced and before the status is stored
RenewClear(h) ==
    /\ pc[h] = "renew_clear"
    /\ data_write(dlock)
    /\ IF dlock.p
         THEN /\ Return(h, Err)
              /\ UNCHANGED << data, lastSet >>
         ELSE /\ Goto(h, "renew_store")
              /\ data' = EmptyMap
              /\ lastSet' = EmptyMap
    /\ UNCHANGED << dlock, mstore, status, data_status, hid, live, store, nextId, snap, prev,
                    call, ncalls, ncas, nset, everDestroyed >>

\* line 117: self.status.store(2)
RenewStore(h) ==
    /\ pc[h] = "renew_store"
    /\ status' = Renewed
    /\ Return(h, Ok)
    /\ UNCHANGED << dlock, mstore, data, data_status, hid, live, store, nextId, snap, prev,
                    call, ncalls, ncas, nset, lastSet, everDestroyed >>

-----------------------------------------------------------------------------
(* Session::destroy, session.rs 123-129 *)

CallDestroy(h) ==
    /\ CanCall(h)
    /\ Begin(h, "destroy", "", "", NoCall.arg, "destroy_load")
    /\ UNCHANGED << dlock, mstore, shared, hid, live, store, nextId, snap, prev, ncas, nset,
                    lastSet, everDestroyed >>

\* DestroyLoad with the threshold of renew (status < 2)
DestroyLoad_OffByOne(h) ==
    /\ pc[h] = "destroy_load"
    /\ IF status < Renewed THEN Goto(h, "destroy_remove") ELSE Return(h, Ok)
    /\ See(h)
    /\ UNCHANGED << dlock, mstore, shared, hid, live, store, nextId, snap, prev, ncalls,
                    ncas, nset, lastSet, everDestroyed >>

\* line 124: if self.status.load() < 3
DestroyLoad(h) ==
    /\ pc[h] = "destroy_load"
    /\ IF status < Destroyed THEN Goto(h, "destroy_remove") ELSE Return(h, Ok)
    /\ See(h)
    /\ UNCHANGED << dlock, mstore, shared, hid, live, store, nextId, snap, prev, ncalls,
                    ncas, nset, lastSet, everDestroyed >>

\* DestroyRemove that goes on to the status update when the remove failed
DestroyRemove_Swallow(h, ok) ==
    /\ pc[h] = "destroy_remove"
    /\ store' = StorageRemove(store, hid[h], ok)
    /\ Issue(h, "remove", hid[h], ok)
    /\ Goto(h, "destroy_store")
    /\ UNCHANGED << dlock, mstore, shared, hid, live, nextId, snap, prev, ncalls, ncas, nset,
                    lastSet, everDestroyed >>

\* line 125: self.config.remove(&self.id).await?
DestroyRemove(h, ok) ==
    /\ pc[h] = "destroy_remove"
    /\ store' = StorageRemove(store, hid[h], ok)
    /\ Issue(h, "remove", hid[h], ok)
    /\ IF ok THEN Goto(h, "destroy_store") ELSE Return(h, Err)
    /\ UNCHANGED << dlock, mstore, shared, hid, live, nextId, snap, prev, ncalls, ncas, nset,
                    lastSet, everDestroyed >>

\* line 126: self.status.store(3)
DestroyStore(h) ==
    /\ pc[h] = "destroy_store"
    /\ status' = Destroyed
    /\ everDestroyed' = TRUE
    /\ Return(h, Ok)
    /\ UNCHANGED << dlock, mstore, data, data_status, hid, live, store, nextId, snap, prev,
                    call, ncalls, ncas, nset, lastSet >>

-----------------------------------------------------------------------------
(* The data container: get, set, remove, clear; session.rs 74-100 *)

\* the variables no data operation touches
lifecycle == << status, hid, live, store, nextId, snap, ncas, nset,
                everDestroyed >>

\* line 75: from_value(self.data().ok()?.get(key).cloned()?).ok()
GetResult(d, key, T) ==
    IF MapGet(d, key).ok THEN OkOption(from_value(T, MapGet(d, key).val)) ELSE None

\* Session::get, lines 74-76: one read under the read lock; data().ok()? is
\* None on a poisoned lock
Get(h, key, T) ==
    /\ CanCall(h)
    /\ data_read(dlock)
    /\ call' = [call EXCEPT ![h] = Enter(h, "get", key, T, NoCall.arg)]
    /\ ret' = [ret EXCEPT ![h] = IF dlock.p THEN None ELSE GetResult(data, key, T)]
    /\ ncalls' = ncalls + 1
    /\ UNCHANGED << dlock, mstore, shared, lifecycle, pc, prev, lastSet >>

\* SetInsert that keeps the value a key already has (an insert-if-absent)
SetInsert_KeepFirst(h, key, v) ==
    /\ CanCall(h)
    /\ data_write(dlock)
    /\ CASE dlock.p ->
              /\ AtOnce(h, Enter(h, "set", key, v.ty, v), None)
              /\ lastSet' = MapInsert(lastSet, key, v)
              /\ UNCHANGED << data, prev, dlock >>
         [] ~dlock.p /\ Panics(v) ->
              /\ AtOnce(h, Enter(h, "set", key, v.ty, v), Panicked)
              /\ dlock' = [dlock EXCEPT !.p = TRUE]
              /\ UNCHANGED << data, prev, lastSet >>
         [] ~dlock.p /\ ~Panics(v) /\ ~to_value(v).ok ->
              /\ AtOnce(h, Enter(h, "set", key, v.ty, v), None)
              /\ lastSet' = MapInsert(lastSet, key, v)
              /\ UNCHANGED << data, prev, dlock >>
         [] ~dlock.p /\ ~Panics(v) /\ to_value(v).ok ->
              /\ Begin(h, "set", key, v.ty, v, "set_mark")
              /\ prev' = [prev EXCEPT ![h] = MapGet(data, key)]
              /\ data' = IF key \in DOMAIN data THEN data
                         ELSE MapInsert(data, key, to_value(v).val)
              /\ lastSet' = MapInsert(lastSet, key, v)
              /\ dlock' = dlock
    /\ UNCHANGED << mstore, status, data_status, lifecycle >>

\* Session::set, lines 80-83: under the write lock, encode and insert.  On a
\* poisoned lock data_mut().ok()? returns None at once; a value whose
\* Serialize impl panics unwinds with the write guard held and poisons the
\* lock; a value that does not encode makes set return None at once.
SetInsert(h, key, v) ==
    /\ CanCall(h)
    /\ data_write(dlock)
    /\ CASE dlock.p ->
              /\ AtOnce(h, Enter(h, "set", key, v.ty, v), None)
              /\ lastSet' = MapInsert(lastSet, key, v)
              /\ UNCHANGED << data, prev, dlock >>
         [] ~dlock.p /\ Panics(v) ->
              /\ AtOnce(h, Enter(h, "set", key, v.ty, v), Panicked)
              /\ dlock' = [dlock EXCEPT !.p = TRUE]
              /\ UNCHANGED << data, prev, lastSet >>
         [] ~dlock.p /\ ~Panics(v) /\ ~to_value(v).ok ->
              /\ AtOnce(h, Enter(h, "set", key, v.ty, v), None)
              /\ lastSet' = MapInsert(lastSet, key, v)
              /\ UNCHANGED << data, prev, dlock >>
         [] ~dlock.p /\ ~Panics(v) /\ to_value(v).ok ->
              /\ Begin(h, "set", key, v.ty, v, "set_mark")
              /\ prev' = [prev EXCEPT ![h] = MapGet(data, key)]
              /\ data' = MapInsert(data, key, to_value(v).val)
              /\ lastSet' = MapInsert(lastSet, key, v)
              /\ dlock' = dlock
    /\ UNCHANGED << mstore, status, data_status, lifecycle >>

\* SetMark that leaves the dirty flag as it is
SetMark_NoMark(h) ==
    /\ pc[h] = "set_mark"
    /\ data_status' = data_status
    /\ Return(h, IF prev[h].ok THEN OkOption(from_value(call[h].ty, prev[h].val))
                 ELSE None)
    /\ UNCHANGED << dlock, mstore, status, data, lifecycle, prev, call, ncalls, lastSet >>

\* Session::set, lines 84-85: mark the data changed, decode the previous value
SetMark(h) ==
    /\ pc[h] = "set_mark"
    /\ data_status' = TRUE
    /\ Return(h, IF prev[h].ok THEN OkOption(from_value(call[h].ty, prev[h].val))
                 ELSE None)
    /\ UNCHANGED << dlock, mstore, status, data, lifecycle, prev, call, ncalls, lastSet >>

\* RemoveKey that reads the value and leaves the key in place
RemoveKey_Peek(h, key, T) ==
    /\ CanCall(h)
    /\ data_write(dlock)
    /\ lastSet' = MapRemove(lastSet, key)
    /\ IF ~dlock.p /\ MapGet(data, key).ok
         THEN /\ prev' = [prev EXCEPT ![h] = MapGet(data, key)]
              /\ data' = data
              /\ Begin(h, "remove", key, T, NoCall.arg, "remove_mark")
         ELSE /\ AtOnce(h, Enter(h, "remove", key, T, NoCall.arg), None)
              /\ UNCHANGED << data, prev >>
    /\ UNCHANGED << dlock, mstore, status, data_status, lifecycle >>

\* Session::remove, line 90: under the write lock, remove; a poisoned lock
\* and an absent key make remove return None at once
RemoveKey(h, key, T) ==
    /\ CanCall(h)
    /\ data_write(dlock)
    /\ lastSet' = MapRemove(lastSet, key)
    /\ IF ~dlock.p /\ MapGet(data, key).ok
         THEN /\ prev' = [prev EXCEPT ![h] = MapGet(data, key)]
              /\ data' = MapRemove(data, key)
              /\ Begin(h, "remove", key, T, NoCall.arg, "remove_mark")
         ELSE /\ AtOnce(h, Enter(h, "remove", key, T, NoCall.arg), None)
              /\ UNCHANGED << data, prev >>
    /\ UNCHANGED << dlock, mstore, status, data_status, lifecycle >>

\* Session::remove, lines 91-92: mark the data changed, decode the value
RemoveMark(h) ==
    /\ pc[h] = "remove_mark"
    /\ data_status' = TRUE
    /\ Return(h, OkOption(from_value(call[h].ty, prev[h].val)))
    /\ UNCHANGED << dlock, mstore, status, data, lifecycle, prev, call, ncalls, lastSet >>

\* Clear that empties a copy of the data
Clear_OnCopy(h) ==
    /\ CanCall(h)
    /\ data_write(dlock)
    /\ IF dlock.p
         THEN /\ AtOnce(h, Enter(h, "clear", "", "", NoCall.arg), Err)
              /\ UNCHANGED << data, lastSet >>
         ELSE /\ Begin(h, "clear", "", "", NoCall.arg, "clear_mark")
              /\ data' = data
              /\ lastSet' = EmptyMap
    /\ UNCHANGED << dlock, mstore, status, data_status, lifecycle, prev >>

\* Session::clear, line 97: self.data_mut()?.clear(); on a poisoned lock the
\* `?` returns the error
Clear(h) ==
    /\ CanCall(h)
    /\ data_write(dlock)
    /\ IF dlock.p
         THEN /\ AtOnce(h, Enter(h, "clear", "", "", NoCall.arg), Err)
              /\ UNCHANGED << data, lastSet >>
         ELSE /\ Begin(h, "clear", "", "", NoCall.arg, "clear_mark")
              /\ data' = EmptyMap
              /\ lastSet' = EmptyMap
    /\ UNCHANGED << dlock, mstore, status, data_status, lifecycle, prev >>

\* Session::clear, lines 98-99: mark the data changed
ClearMark(h) ==
    /\ pc[h] = "clear_mark"
    /\ data_status' = TRUE
    /\ Return(h, Ok)
    /\ UNCHANGED << dlock, mstore, status, data, lifecycle, prev, call, ncalls, lastSet >>

-----------------------------------------------------------------------------
(* The guards of the data lock handed to the caller: data(), data_mut(),   *)
(* session.rs 49-56.  The caller keeps the guard as long as it likes, reads *)
(* or writes the data through it, and drops it, or panics holding it.      *)

\* Session::data, lines 49-51: the read guard, or the error on a poisoned
\* lock
DataGuard(h) ==
    /\ CanCall(h)
    /\ data_read(dlock)
    /\ IF dlock.p
         THEN /\ AtOnce(h, Enter(h, "data", "", "", NoCall.arg), Err)
              /\ dlock' = dlock
         ELSE /\ Begin(h, "data", "", "", NoCall.arg, "data")
              /\ dlock' = [dlock EXCEPT !.r = @ \cup {h}]
    /\ UNCHANGED << mstore, shared, lifecycle, prev, lastSet >>

\* Session::data_mut, lines 54-56: the write guard, or the error on a
\* poisoned lock
DataMutGuard(h) ==
    /\ CanCall(h)
    /\ data_write(dlock)
    /\ IF dlock.p
         THEN /\ AtOnce(h, Enter(h, "data_mut", "", "", NoCall.arg), Err)
              /\ dlock' = dlock
         ELSE /\ Begin(h, "data_mut", "", "", NoCall.arg, "data_mut")
              /\ dlock' = [dlock EXCEPT !.w = {h}]
    /\ UNCHANGED << mstore, shared, lifecycle, prev, lastSet >>

\* the holder of the write guard puts d in the place of the data
\* (`*guard = d`, guard.insert(..)); the dirty flag is not involved
GuardWrite(h, d) ==
    /\ pc[h] = "data_mut"
    /\ d # data
    /\ data' = d
    /\ UNCHANGED << dlock, mstore, status, data_status, lifecycle, pc, prev, call,
                    ret, ncalls, lastSet >>

\* the holder drops its guard
GuardDrop(h) ==
    /\ pc[h] \in {"data", "data_mut"}
    /\ dlock' = [dlock EXCEPT !.r = @ \ {h}, !.w = @ \ {h}]
    /\ Return(h, Ok)
    /\ UNCHANGED << mstore, shared, lifecycle, prev, call, ncalls, lastSet >>

\* the holder of the write guard panics: unwinding drops the guard, and a
\* write guard dropped by a panicking thread poisons the lock (a read guard
\* dropped by a panicking thread leaves the lock as GuardDrop does)
GuardPanic(h) ==
    /\ pc[h] = "data_mut"
    /\ dlock' = [w |-> dlock.w \ {h}, r |-> dlock.r, p |-> TRUE]
    /\ Return(h, Panicked)
    /\ UNCHANGED << mstore, shared, lifecycle, prev, call, ncalls, lastSet >>

-----------------------------------------------------------------------------
(* The in-memory store, src/memory_store.rs.  Tasks call get, remove and   *)
(* save on one MemoryStore; its map sits behind an async RwLock.  A guard  *)
(* that lives across an await is held between two steps (mapLock, and the  *)
(* position of the task for the guard of the session's own lock); a guard  *)
(* that is taken and dropped inside one expression is one step.            *)

\* Storable::verify_sid: the verifier accepts or rejects an id by its form;
\* id 0 stands for an id it rejects
verify_sid(sid) == sid >= 1

\* the states of the sessions handed to save
StateA == MapInsert(EmptyMap, "k1", [ty |-> "Number", x |-> "1"])
StateB == MapInsert(EmptyMap, "k2", [ty |-> "String", x |-> "a"])

\* the sessions handed to save: an id (verified or not) and a state
SavedSessions == [id : Sids, state : {StateA, StateB}]

\* a task may start a call on the store
TaskCanCall(t) == tpc[t] = "idle" /\ nops < MaxStoreOps

\* task t enters a method of the store
TaskBegin(t, op, sid, sess, at) ==
    /\ targ' = [targ EXCEPT ![t] = [NoTask EXCEPT !.op = op, !.sid = sid,
                                                  !.sess = sess,
                                                  !.ret = "pending"]]
    /\ tpc' = [tpc EXCEPT ![t] = at]
    /\ nops' = nops + 1

\* line 39: let session = Session::new(Arc::new(self.clone()))
StoreGetCall(t, sid) ==
    /\ TaskCanCall(t)
    /\ TaskBegin(t, "get", sid, NoTask.sess, "get_verify")
    /\ tsess' = [tsess EXCEPT ![t] = NewSession]
    /\ UNCHANGED << session, store, mapLock, tloc, lastSave >>

\* lines 41-43: if !self.verify_sid(sid).await { return session; }
StoreGetVerify(t) ==
    /\ tpc[t] = "get_verify"
    /\ IF verify_sid(targ[t].sid)
         THEN /\ tpc' = [tpc EXCEPT ![t] = "get_contains"]
              /\ UNCHANGED targ
         ELSE /\ tpc' = [tpc EXCEPT ![t] = "idle"]
              /\ targ' = [targ EXCEPT ![t].ret = "session"]
    /\ UNCHANGED << session, store, mapLock, tsess, tloc, lastSave, nops >>

\* line 45: if self.store().await.contains_key(sid); the read guard is
\* dropped when the condition has been evaluated
StoreGetContains(t) ==
    /\ tpc[t] = "get_contains"
    /\ mapLock = 0
    /\ IF targ[t].sid \in DOMAIN store
         THEN /\ tpc' = [tpc EXCEPT ![t] = "get_beer"]
              /\ targ' = [targ EXCEPT ![t].has = TRUE]
         ELSE /\ tpc' = [tpc EXCEPT ![t] = "idle"]
              /\ targ' = [targ EXCEPT ![t].ret = "session"]
    /\ UNCHANGED << session, store, mapLock, tsess, tloc, lastSave, nops >>

\* line 46: session.beer_mut().await; the write guard of the session's own
\* lock lives to the end of the block
StoreGetBeer(t) ==
    /\ tpc[t] = "get_beer"
    /\ tpc' = [tpc EXCEPT ![t] = "get_lookup"]
    /\ UNCHANGED << session, store, mapLock, targ, tsess, tloc, lastSave, nops >>

\* StoreGetLookup that trusts contains_key: it sets id and status whatever
\* the second lookup finds
StoreGetLookup_Trusting(t) ==
    /\ tpc[t] = "get_lookup"
    /\ mapLock = 0
    /\ IF targ[t].sid \in DOMAIN store
         THEN /\ tsess' = [tsess EXCEPT ![t] =
                             [id |-> targ[t].sid, state |-> store[targ[t].sid],
                              status |-> "Existed"]]
              /\ targ' = [targ EXCEPT ![t].got = TRUE, ![t].ret = "session"]
         ELSE /\ tsess' = [tsess EXCEPT ![t].id = targ[t].sid,
                                        ![t].status = "Existed"]
              /\ targ' = [targ EXCEPT ![t].ret = "session"]
    /\ tpc' = [tpc EXCEPT ![t] = "idle"]
    /\ UNCHANGED << session, store, mapLock, tloc, lastSave, nops >>

\* lines 48-55: if let Some(data) = self.store().await.get(sid).cloned(),
\* the three fields are assigned; then the guards are dropped and the
\* session is returned
StoreGetLookup(t) ==
    /\ tpc[t] = "get_lookup"
    /\ mapLock = 0
    /\ IF targ[t].sid \in DOMAIN store
         THEN /\ tsess' = [tsess EXCEPT ![t] =
                             [id |-> targ[t].sid, state |-> store[targ[t].sid],
                              status |-> "Existed"]]
              /\ targ' = [targ EXCEPT ![t].got = TRUE, ![t].ret = "session"]
         ELSE /\ tsess' = tsess
              /\ targ' = [targ EXCEPT ![t].ret = "session"]
    /\ tpc' = [tpc EXCEPT ![t] = "idle"]
    /\ UNCHANGED << session, store, mapLock, tloc, lastSave, nops >>

\* lines 58-60: self.store_mut().await.remove(sid).is_some()
StoreRemove(t, sid) ==
    /\ TaskCanCall(t)
    /\ mapLock = 0
    /\ store' = MapRemove(store, sid)
    /\ lastSave' = [x \in (DOMAIN lastSave) \ {sid} |-> lastSave[x]]
    /\ targ' = [targ EXCEPT ![t] =
                  [NoTask EXCEPT !.op = "remove", !.sid = sid,
                                 !.ret = IF sid \in DOMAIN store THEN "true"
                                         ELSE "false"]]
    /\ nops' = nops + 1
    /\ UNCHANGED << session, mapLock, tpc, tsess, tloc >>

\* lines 63-64: self.store_mut().await; the write guard of the map lives
\* until insert has returned
StoreSaveLock(t, s) ==
    /\ TaskCanCall(t)
    /\ mapLock = 0
    /\ mapLock' = t
    /\ TaskBegin(t, "save", s.id, s, "save_id")
    /\ UNCHANGED << session, store, tsess, tloc, lastSave >>

\* line 65, first argument: session.id().await reads the id under the
\* session's own lock
StoreSaveId(t) ==
    /\ tpc[t] = "save_id"
    /\ tloc' = [tloc EXCEPT ![t].id = targ[t].sess.id]
    /\ tpc' = [tpc EXCEPT ![t] = "save_state"]
    /\ UNCHANGED << session, store, mapLock, targ, tsess, lastSave, nops >>

\* line 65, second argument: session.state().await reads the state under
\* the session's own lock
StoreSaveState(t) ==
    /\ tpc[t] = "save_state"
    /\ tloc' = [tloc EXCEPT ![t].state = targ[t].sess.state]
    /\ tpc' = [tpc EXCEPT ![t] = "save_insert"]
    /\ UNCHANGED << session, store, mapLock, targ, tsess, lastSave, nops >>

\* StoreSaveInsert that merges the state into the entry the id already has
StoreSaveInsert_Merge(t) ==
    /\ tpc[t] = "save_insert"
    /\ store' = MapInsert(store, tloc[t].id,
                   IF tloc[t].id \in DOMAIN store
                     THEN [k \in DOMAIN store[tloc[t].id] \cup DOMAIN tloc[t].state |->
                             IF k \in DOMAIN tloc[t].state THEN tloc[t].state[k]
                             ELSE store[tloc[t].id][k]]
                     ELSE tloc[t].state)
    /\ lastSave' = [x \in (DOMAIN lastSave) \cup {targ[t].sess.id} |->
                      IF x = targ[t].sess.id THEN targ[t].sess.state
                      ELSE lastSave[x]]
    /\ mapLock' = 0
    /\ targ' = [targ EXCEPT ![t].ret = "true"]
    /\ tpc' = [tpc EXCEPT ![t] = "idle"]
    /\ UNCHANGED << session, tsess, tloc, nops >>

\* lines 65-66: insert(id, state) puts the state in the place of the entry,
\* the guard of the map is dropped and save returns true
StoreSaveInsert(t) ==
    /\ tpc[t] = "save_insert"
    /\ store' = MapInsert(store, tloc[t].id, tloc[t].state)
    /\ lastSave' = [x \in (DOMAIN lastSave) \cup {targ[t].sess.id} |->
                      IF x = targ[t].sess.id THEN targ[t].sess.state
                      ELSE lastSave[x]]
    /\ mapLock' = 0
    /\ targ' = [targ EXCEPT ![t].ret = "true"]
    /\ tpc' = [tpc EXCEPT ![t] = "idle"]
    /\ UNCHANGED << session, tsess, tloc, nops >>

-----------------------------------------------------------------------------
(* The specification *)

\* The data operations that run beside the lifecycle operations in Spec work
\* on one key with one value; SpecData runs them with every key and type.
LifeKeys == {"k1"}
LifeVals == {[ty |-> "i64", x |-> "2"]}
LifeTypes == {"i64"}

Lifecycle ==
    \/ \E h \in Handles, u \in Handles : Clone(h, u)
    \/ \E h \in Handles : CallSave(h)
    \/ \E h \in Handles : SaveCas(h)
    \/ \E h \in Handles : SaveRead(h)
    \/ \E h \in Handles : SaveSnapshot(h)
    \/ \E h \in Handles, ok \in BOOLEAN : SaveSet(h, ok)
    \/ \E h \in Handles : CallRenew(h)
    \/ \E h \in Handles : RenewLoad(h)
    \/ \E h \in Handles, ok \in BOOLEAN : RenewRemove(h, ok)
    \/ \E h \in Handles : RenewGenerate(h)
    \/ \E h \in Handles : RenewClear(h)
    \/ \E h \in Handles : RenewStore(h)
    \/ \E h \in Handles : CallDestroy(h)
    \/ \E h \in Handles, ok \in BOOLEAN : DestroyRemove(h, ok)
    \/ \E h \in Handles : DestroyLoad(h)
    \/ \E h \in Handles : DestroyStore(h)

Next ==
    \/ Lifecycle
    \/ \E h \in Handles, key \in LifeKeys, T \in LifeTypes : Get(h, key, T)
    \/ \E h \in Handles, key \in LifeKeys, v \in LifeVals : SetInsert(h, key, v)
    \/ \E h \in Handles : SetMark(h)
    \/ \E h \in Handles, key \in LifeKeys, T \in LifeTypes : RemoveKey(h, key, T)
    \/ \E h \in Handles : RemoveMark(h)
    \/ \E h \in Handles : Clear(h)
    \/ \E h \in Handles : ClearMark(h)
    \/ \E h \in Handles : DataGuard(h)
    \/ \E h \in Handles : DataMutGuard(h)
    \/ \E h \in Handles, d \in GuardData : GuardWrite(h, d)
    \/ \E h \in Handles : GuardDrop(h)
    \/ \E h \in Handles : GuardPanic(h)

Spec == Init /\ [][Next]_vars

\* The data operations alone, on the session's one handle, with every key
\* and every type
NextData ==
    \/ \E key \in Keys, T \in Types : Get(1, key, T)
    \/ \E key \in Keys, v \in TypedVals : SetInsert(1, key, v)
    \/ SetMark(1)
    \/ \E key \in Keys, T \in Types : RemoveKey(1, key, T)
    \/ RemoveMark(1)
    \/ Clear(1)
    \/ ClearMark(1)

SpecData == Init /\ [][NextData]_vars

\* The tasks of the in-memory store
NextStore ==
    \/ \E t \in Tasks, sid \in Sids : StoreGetCall(t, sid)
    \/ \E t \in Tasks : StoreGetVerify(t)
    \/ \E t \in Tasks : StoreGetContains(t)
    \/ \E t \in Tasks : StoreGetBeer(t)
    \/ \E t \in Tasks : StoreGetLookup(t)
    \/ \E t \in Tasks, sid \in Sids : StoreRemove(t, sid)
    \/ \E t \in Tasks, s \in SavedSessions : StoreSaveLock(t, s)
    \/ \E t \in Tasks : StoreSaveId(t)
    \/ \E t \in Tasks : StoreSaveState(t)
    \/ \E t \in Tasks : StoreSaveInsert(t)

\* the store's tasks run beside a session that is left alone
InitStore == Init /\ status = Created

SpecStore == InitStore /\ [][NextStore]_vars

-----------------------------------------------------------------------------
(* Properties of save, renew and destroy (checked under Spec) *)

\* the Storage removes that succeeded and the ids generated in the call c
Removed(c) == {i \in c.io : i.f = "remove" /\ i.ok}
Generated(c) == {i \in c.io : i.f = "generate"}

\* the last call of handle h has returned (it is not running, and it did
\* not end in a panic)
Returned(h) == pc[h] = "idle" /\ ret[h] \notin {Pending, Panicked}

InSave(h) == pc[h] \in {"save_cas", "save_read", "save_snapshot", "save_set"}

\* C1 as stated: two save() calls entered while the status is Created: the
\* swap Created -> Saved succeeds once and one Storage write is issued, by
\* the call whose swap succeeded; a call whose swap fails issues no Storage
\* call.
C1_Original ==
    /\ ncas <= 1
    /\ nset <= ncas
    /\ \A h \in Handles :
         call[h].op = "save" /\ Returned(h) =>
           /\ call[h].io \subseteq {Io("set", call[h].id0, TRUE), Io("set", call[h].id0, FALSE)}
           /\ (call[h].io # {}) <=> (call[h].seen = Created)
    /\ \A h, u \in Handles :
         /\ h # u
         /\ call[h].op = "save" /\ call[u].op = "save"
         /\ call[h].st0 = Created /\ call[u].st0 = Created
         /\ Returned(h) /\ Returned(u)
         /\ \A w \in Handles \ {h, u} : call[w].op = "none"
         => /\ ncas = 1
            /\ nset = 1
            /\ (call[h].io = {}) # (call[u].io = {})

\* C1, amended: of two save() calls entered while the status is Created the
\* swap Created -> Saved succeeds for one and at most one Storage write is
\* issued, by the call whose swap succeeded: it issues the write when the
\* data lock is not poisoned, and on a poisoned lock it returns the error
\* with no Storage call; the call whose swap fails issues no Storage call.
C1_SaveOnce ==
    /\ ncas <= 1
    /\ nset <= ncas
    /\ \A h \in Handles :
         call[h].op = "save" /\ Returned(h) =>
           /\ call[h].io \subseteq {Io("set", call[h].id0, TRUE), Io("set", call[h].id0, FALSE)}
           /\ call[h].io # {} => call[h].seen = Created
           /\ call[h].seen = Created /\ ~dlock.p => call[h].io # {}
           /\ call[h].seen = Created /\ call[h].io = {} => dlock.p /\ ret[h] = Err
           /\ call[h].seen = Created /\ call[h].poi => call[h].io = {} /\ ret[h] = Err
    /\ \A h, u \in Handles :
         /\ h # u
         /\ call[h].op = "save" /\ call[u].op = "save"
         /\ call[h].st0 = Created /\ call[u].st0 = Created
         /\ Returned(h) /\ Returned(u)
         /\ \A w \in Handles \ {h, u} : call[w].op = "none"
         => /\ ncas = 1
            /\ nset <= 1
            /\ call[h].io = {} \/ call[u].io = {}
            /\ ~dlock.p => nset = 1 /\ (call[h].io = {}) # (call[u].io = {})

C1_Witness ==
    \E h, u \in Handles :
        /\ h # u
        /\ call[h].op = "save" /\ call[u].op = "save"
        /\ call[h].st0 = Created /\ call[u].st0 = Created
        /\ Returned(h) /\ Returned(u)
        /\ call[h].io # {} /\ call[u].io = {}

\* C2: a save() whose Storage write fails returns the error, and the status,
\* swapped to Saved before the write, is not rolled back; save never changes
\* the data.
C2_SaveFailureKeepsSaved ==
    [][\A h \in Handles :
         /\ (pc[h] = "save_cas" /\ pc'[h] = "save_read"
               => status = Created /\ status' = Saved)
         /\ (InSave(h) /\ pc'[h] # pc[h] => data' = data)
         /\ (pc[h] \in {"save_read", "save_snapshot", "save_set"} /\ pc'[h] # pc[h]
               => status' = status)
         /\ (pc[h] = "save_set" /\ pc'[h] = "idle"
               => /\ (ret'[h] = Err) <=> (Io("set", hid[h], FALSE) \in call'[h].io)
                  /\ (ret'[h] = Ok) <=> (Io("set", hid[h], TRUE) \in call'[h].io)
                  /\ ret'[h] = Err => store' = store)
         /\ (call'[h].op = "save" /\ ret'[h] = Err => status' >= Saved)
      ]_vars

C2_Witness ==
    \E h \in Handles :
        /\ call[h].op = "save" /\ Returned(h) /\ ret[h] = Err
        /\ call[h].seen = Created
        /\ status = Saved

\* C3: a renew() that reads status Created or Saved and whose Storage
\* remove succeeds returns Ok with the old id's entry removed from Storage,
\* a new id different from the old one in place, the data emptied by it and
\* the status Renewed; a renew() that reads Renewed or above returns Ok,
\* changes nothing and issues no Storage call.
C3_Renew ==
    [][\A h \in Handles :
         /\ (InRenew(h) /\ pc'[h] = "idle" /\ call'[h].seen < Renewed
               /\ Removed(call'[h]) # {}
               => /\ ret'[h] = Ok
                  /\ status' = Renewed
                  /\ hid'[h] # call'[h].id0
                  /\ call'[h].id0 \notin DOMAIN store'
                  /\ Generated(call'[h]) # {})
         /\ (pc[h] = "renew_clear" /\ pc'[h] # pc[h] => data' = EmptyMap)
         /\ (pc[h] = "renew_load" /\ pc'[h] # pc[h] /\ status >= Renewed
               => /\ pc'[h] = "idle" /\ ret'[h] = Ok
                  /\ call'[h].io = {}
                  /\ UNCHANGED << hid, data, status, store, nextId >>)
      ]_vars

\* C4: a destroy() that reads a status below Destroyed issues a Storage
\* remove for the handle's id; when the remove succeeds the id has no entry
\* in the store and the call stores status Destroyed and returns Ok.
C4_Destroy ==
    [][\A h \in Handles :
         /\ (pc[h] = "destroy_load" /\ pc'[h] # pc[h] /\ status < Destroyed
               => pc'[h] = "destroy_remove")
         /\ (pc[h] = "destroy_remove" /\ pc'[h] # pc[h]
               => /\ \E ok \in BOOLEAN : call'[h].io = {Io("remove", hid[h], ok)}
                  /\ (pc'[h] = "destroy_store")
                       <=> (Io("remove", hid[h], TRUE) \in call'[h].io)
                  /\ pc'[h] = "destroy_store" => hid[h] \notin DOMAIN store')
         /\ (pc[h] = "destroy_store" /\ pc'[h] # pc[h]
               => /\ pc'[h] = "idle" /\ ret'[h] = Ok
                  /\ status' = Destroyed)
      ]_vars

C4_Witness ==
    \E h \in Handles :
        /\ call[h].op = "destroy" /\ Returned(h) /\ ret[h] = Ok
        /\ call[h].seen = Renewed
        /\ call[h].io = {Io("remove", hid[h], TRUE)}
        /\ hid[h] \notin DOMAIN store
        /\ status = Destroyed

\* C5: once the status has been Destroyed, every call of save, renew or
\* destroy entered afterwards returns Ok, issues no Storage call and leaves
\* the status at Destroyed and the id as it was.
C5_DestroyedSticky ==
    \A h \in Handles :
        /\ call[h].op \in {"save", "renew", "destroy"}
        /\ call[h].late
        /\ Returned(h)
        => /\ ret[h] = Ok
           /\ call[h].io = {}
           /\ status = Destroyed
           /\ hid[h] = call[h].id0

\* C6: the status never decreases.
C6_StatusMonotonic == [][status' >= status]_vars

\* C7: a handle that can be observed (it is not borrowed by a running renew)
\* never shows an id produced by renew together with a status below Renewed.
C7_NewIdNeverWithOldStatus ==
    \A h \in live : ~InRenew(h) /\ hid[h] # 1 => status >= Renewed

-----------------------------------------------------------------------------
(* Properties of the data container (checked under SpecData) *)

\* v has an encoding that decodes back to v as v's own type
RoundTrips(v) ==
    /\ to_value(v).ok
    /\ from_value(v.ty, to_value(v).val) = Done(v)

\* an encodable v read back as type T
Decoded(T, v) == OkOption(from_value(T, to_value(v).val))

\* C8 as stated: get(k) returns the value last set for k, and set(k, v2)
\* returns the value last set for k (none when there is none).
C8_Original ==
    \A h \in Handles :
        Returned(h) =>
          /\ (call[h].op = "get" /\ call[h].old.ok /\ call[h].ty = call[h].old.val.ty
                => ret[h] = Some(call[h].old.val))
          /\ (call[h].op = "set"
                => ret[h] = IF call[h].old.ok THEN Some(call[h].old.val) ELSE None)

\* C8, amended: while the data lock is not poisoned, for values that
\* round-trip through the value format, get::<T>(k) returns the value v last
\* set for k when v is of type T, and set(k, v2) returns the value v1 last
\* set for k when v1 is of v2's type (none when k was absent); a value of
\* another type is returned as it decodes (none when it does not).  On a
\* poisoned lock get and set return none.
C8_RoundTrip ==
    \A h \in Handles :
        Returned(h) =>
          /\ (call[h].op = "get" /\ ~call[h].poi
                /\ call[h].old.ok /\ RoundTrips(call[h].old.val)
                => /\ ret[h] = Decoded(call[h].ty, call[h].old.val)
                   /\ call[h].ty = call[h].old.val.ty
                        => ret[h] = Some(call[h].old.val))
          /\ (call[h].op = "set" /\ ~call[h].poi /\ RoundTrips(call[h].arg)
                => /\ ~call[h].old.ok => ret[h] = None
                   /\ call[h].old.ok /\ RoundTrips(call[h].old.val)
                        => /\ ret[h] = Decoded(call[h].ty, call[h].old.val)
                           /\ call[h].ty = call[h].old.val.ty
                                => ret[h] = Some(call[h].old.val))
          /\ (call[h].op = "get" /\ ~call[h].old.ok => ret[h] = None)
          /\ (call[h].op \in {"get", "set"} /\ call[h].poi => ret[h] = None)

C8_Witness ==
    \E h \in Handles :
        /\ call[h].op = "get" /\ Returned(h)
        /\ call[h].key = "k2"
        /\ call[h].old = Done([ty |-> "i64", x |-> "2"])
        /\ ret[h] = Some([ty |-> "i64", x |-> "2"])
        /\ ncalls = 3

\* C9 as stated: remove(k) returns the value last set for k, none if there
\* is none.
C9_Original ==
    \A h \in Handles :
        call[h].op = "remove" /\ Returned(h)
          => ret[h] = IF call[h].old.ok THEN Some(call[h].old.val) ELSE None

\* C9, amended: while the data lock is not poisoned, remove::<T>(k) returns
\* the value last set for k when that value round-trips and is of type T (as
\* it decodes, none when it does not, for another type), and none if k was
\* never set or was removed or cleared; after remove(k), get(k) returns none
\* and every other key keeps its value.  On a poisoned lock remove returns
\* none and leaves the data as it was, and get(k) returns none.
C9_Remove ==
    [][\A h \in Handles :
         /\ \A key \in Keys, T \in Types :
              RemoveKey(h, key, T)
                => /\ ~dlock.p => key \notin DOMAIN data'
                   /\ ~dlock.p => \A T2 \in Types : GetResult(data', key, T2) = None
                   /\ dlock.p => ret'[h] = None /\ data' = data
                   /\ \A k2 \in Keys \ {key} : MapGet(data', k2) = MapGet(data, k2)
         /\ (pc[h] = "remove_mark" /\ pc'[h] = "idle" => data' = data)
         /\ (call'[h].op = "remove" /\ pc'[h] = "idle"
               => /\ ~call'[h].old.ok => ret'[h] = None
                  /\ call'[h].poi => ret'[h] = None
                  /\ ~call'[h].poi /\ call'[h].old.ok /\ RoundTrips(call'[h].old.val)
                       => /\ ret'[h] = Decoded(call'[h].ty, call'[h].old.val)
                          /\ call'[h].ty = call'[h].old.val.ty
                               => ret'[h] = Some(call'[h].old.val))
      ]_vars

C9_Witness ==
    \E h \in Handles :
        /\ call[h].op = "remove" /\ Returned(h)
        /\ call[h].key = "k1"
        /\ ret[h] = Some([ty |-> "i64", x |-> "2"])
        /\ "k1" \notin DOMAIN data
        /\ "k2" \in DOMAIN data

\* C10 as stated: clear() leaves the empty container, whatever the data
\* held.
C10_Original ==
    [][\A h \in Handles : Clear(h) => data' = EmptyMap]_vars

\* C10, amended: a clear() on a data lock that is not poisoned leaves the
\* empty container, whatever the data held, and returns Ok; on a poisoned
\* lock clear() returns the error and leaves the data as it was.  After
\* every clear() get returns none for every key and type.
C10_Clear ==
    [][\A h \in Handles :
         /\ Clear(h) => /\ ~dlock.p => data' = EmptyMap
                        /\ dlock.p => ret'[h] = Err /\ data' = data
                        /\ \A key \in Keys, T \in Types :
                             ret'[h] = Err \/ GetResult(data', key, T) = None
         /\ (pc[h] = "clear_mark" /\ pc'[h] = "idle"
               => ret'[h] = Ok /\ data' = data /\ data = EmptyMap)
         /\ \A key \in Keys, T \in Types :
              Get(h, key, T) /\ dlock.p => ret'[h] = None
      ]_vars

C10_Witness ==
    \E h \in Handles :
        /\ call[h].op = "clear" /\ Returned(h)
        /\ call[h].had = Keys
        /\ data = EmptyMap

-----------------------------------------------------------------------------
(* The dirty flag (data_status) *)

\* the calls of set, remove and clear that get as far as the container: on
\* a lock that is not poisoned, a set whose value encodes, a remove of a key
\* the data holds, every clear
Mutates(c) ==
    /\ ~c.poi
    /\ \/ c.op = "set" /\ ~Panics(c.arg) /\ to_value(c.arg).ok
       \/ c.op = "remove" /\ c.key \in c.had
       \/ c.op = "clear"

\* C11, as stated: every call of set, remove or clear leaves the dirty flag
\* true when it returns, for every key and every content of the container.
C11_Original ==
    \A h \in Handles :
        call[h].op \in {"set", "remove", "clear"} /\ Returned(h) => data_status

\* C11, amended: on a data lock that is not poisoned, a set whose value
\* encodes, a remove of a key the data holds and every clear leave the dirty
\* flag true when they return; a set whose value does not encode and a
\* remove of an absent key return none, and every set, remove (none) and
\* clear (error) on a poisoned lock, and all these leave the flag and the data
\* as they were.
C11_DirtyAfterMutation ==
    [][\A h \in Handles :
         /\ (Mutates(call'[h]) /\ pc'[h] = "idle" /\ ret'[h] # Pending
               => data_status')
         /\ \A key \in Keys, v \in TypedVals :
              /\ SetInsert(h, key, v) /\ ~Panics(v) /\ ~to_value(v).ok
                   => ret'[h] = None /\ data_status' = data_status /\ data' = data
              /\ SetInsert(h, key, v) /\ dlock.p
                   => ret'[h] = None /\ data_status' = data_status /\ data' = data
              /\ SetInsert(h, key, v) /\ Panics(v) /\ ~dlock.p
                   => ret'[h] = Panicked /\ data_status' = data_status /\ data' = data
         /\ \A key \in Keys, T \in Types :
              RemoveKey(h, key, T) /\ (dlock.p \/ key \notin DOMAIN data)
                => ret'[h] = None /\ data_status' = data_status /\ data' = data
         /\ Clear(h) /\ dlock.p
              => ret'[h] = Err /\ data_status' = data_status /\ data' = data
      ]_vars

C11_Witness ==
    \E h \in Handles :
        /\ call[h].op = "remove" /\ Returned(h)
        /\ call[h].key \in call[h].had
        /\ call[h].had = Keys
        /\ data_status

\* C12: the dirty flag is true exactly if the data has been mutated since
\* the last save: false on a new session, true once a mutation has returned
\* (a set, remove or clear, or a write through the guard of data_mut()),
\* false again once a save has written the data and no call has followed it.
C12_Original ==
    /\ ncalls = 0 => ~data_status
    /\ \A h \in Handles :
         /\ (Mutates(call[h]) /\ Returned(h) => data_status)
         /\ (call[h].op = "save" /\ Returned(h) /\ ret[h] = Ok
               /\ call[h].io # {}
               /\ (\A u \in Handles \ {h} : call[u].op = "none")
               => ~data_status)
         /\ (call[h].op = "data_mut" /\ Returned(h) /\ ret[h] = Ok
               /\ DOMAIN data # call[h].had
               /\ (\A u \in Handles \ {h} : call[u].op = "none")
               => data_status)

-----------------------------------------------------------------------------
(* Properties of the in-memory store (checked under SpecStore) *)

TaskReturned(t) == tpc[t] = "idle" /\ targ[t].ret \notin {"none", "pending"}

\* what get(sid) is to return for a store st: the session of the entry, or
\* a new session
Loaded(sid, st) ==
    IF verify_sid(sid) /\ sid \in DOMAIN st
      THEN [id |-> sid, state |-> st[sid], status |-> "Existed"]
      ELSE NewSession

\* C13: get(sid) always returns a session: the one with id sid, the stored
\* state and status Existed if sid verifies and the store holds an entry for
\* it as get returns, a new session (empty state, status Created) otherwise;
\* whatever save and remove do meanwhile, the session get builds is at every
\* moment a new one or a wholly loaded one.
C13_LoadTotal ==
    [][\A t \in Tasks :
         /\ targ[t].op = "get" /\ tpc[t] # "idle" /\ tpc'[t] = "idle"
              => /\ tsess'[t] = Loaded(targ[t].sid, store)
                 /\ targ'[t].ret = "session"
         /\ targ'[t].op = "get"
              => \/ tsess'[t] = NewSession
                 \/ /\ verify_sid(targ'[t].sid)
                    /\ tsess'[t].id = targ'[t].sid
                    /\ tsess'[t].status = "Existed"
                    /\ tsess'[t].state \in {StateA, StateB}
      ]_vars

C13_Witness ==
    \E t \in Tasks :
        /\ targ[t].op = "get" /\ TaskReturned(t)
        /\ targ[t].has /\ ~targ[t].got
        /\ tsess[t] = NewSession
        /\ \E u \in Tasks : targ[u].op = "remove" /\ targ[u].ret = "true"

\* C14: save puts the session's state in the place of the entry of its id:
\* after any saves and removes the store holds, for every id, exactly the
\* state of the last save of that id that no remove of it followed (and no
\* entry if there is none), and a save or remove leaves the entries of the
\* other ids as they are.
C14_LastWriterWins ==
    [][/\ store' = lastSave'
       /\ \A t \in Tasks :
            /\ tpc[t] = "save_insert" /\ tpc'[t] = "idle"
                 => /\ store'[targ[t].sess.id] = targ[t].sess.state
                    /\ \A x \in Sids \ {targ[t].sess.id} :
                         MapGet(store', x) = MapGet(store, x)
            /\ \A sid \in Sids :
                 StoreRemove(t, sid)
                   => /\ sid \notin DOMAIN store'
                      /\ \A x \in Sids \ {sid} : MapGet(store', x) = MapGet(store, x)
      ]_vars

C14_Witness ==
    \E t \in Tasks, u \in Tasks :
        /\ targ[t].op = "save" /\ TaskReturned(t)
        /\ targ[u].op = "save" /\ TaskReturned(u)
        /\ targ[t].sess.id = targ[u].sess.id
        /\ targ[t].sess.state = StateA
        /\ targ[u].sess.state = StateB
        /\ targ[t].sess.id \in DOMAIN store
        /\ store[targ[t].sess.id] = StateB

\* C15: get, remove and save hold the lock of the map for their own access
\* to the map only: no task that holds it is at a point where it acquires
\* the lock of a Session.
C15_MapLockOnlyForMapAccess ==
    \A t \in Tasks : mapLock = t => tpc[t] \notin {"save_id", "save_state"}

-----------------------------------------------------------------------------
(* Locks and races of save, renew and destroy (checked under Spec) *)

\* C16: save copies the data under the read guard, drops the guard and only
\* then issues the Storage write: while the write of handle h is pending, h
\* holds no guard of the data, and a clear, set, remove or get of another
\* handle can take its step as far as h is concerned (it can whenever no
\* other save is copying the data and no caller keeps a guard it got from
\* data() or data_mut()).
C16_SnapshotThenWrite ==
    \A h \in Handles :
        pc[h] = "save_set"
          => /\ h \notin dlock.r \cup dlock.w
             /\ (\A w \in Handles : pc[w] \notin {"save_snapshot", "data", "data_mut"})
                  => /\ data_write(dlock)
                     /\ \A u \in Handles :
                          CanCall(u) => /\ ENABLED Clear(u)
                                        /\ ENABLED SetInsert(u, "k1", [ty |-> "i64", x |-> "2"])
                                        /\ ENABLED RemoveKey(u, "k1", "i64")
                                        /\ ENABLED Get(u, "k1", "i64")

C16_Witness ==
    \E h \in Handles, u \in Handles :
        /\ pc[h] = "save_set"
        /\ call[u].op = "set" /\ Returned(u)
        /\ call[u].st0 = Saved
        /\ snap[h] # data

\* C17: racing calls of renew and destroy end as some serial order of them
\* would, the check of the status and its update acting as one step: no two
\* destroy calls both have their Storage remove succeed, no two renew calls
\* both generate an id, and once a destroy that removed the entry has
\* returned Ok and no call is in flight the status is Destroyed.
C17_Serialized ==
    \A h \in Handles :
        /\ \A u \in Handles \ {h} :
             /\ ~(/\ call[h].op = "destroy" /\ call[u].op = "destroy"
                  /\ Removed(call[h]) # {} /\ Removed(call[u]) # {})
             /\ ~(/\ call[h].op = "renew" /\ call[u].op = "renew"
                  /\ Generated(call[h]) # {} /\ Generated(call[u]) # {})
        /\ (/\ call[h].op = "destroy" /\ Returned(h) /\ ret[h] = Ok
            /\ Removed(call[h]) # {}
            /\ \A u \in Handles : pc[u] = "idle")
             => status = Destroyed

\* C18: save issues its Storage write only if its compare-and-swap finds
\* the status Created; on Saved, Renewed or Destroyed it returns Ok at once,
\* with no Storage call and the status as it was.  Every change of the store's
\* entries by a write is the write of the one save that found Created, so
\* data mutated after that save is never written.
C18_WriteOnlyWhenCreated ==
    [][/\ \A h \in Handles :
            /\ pc[h] = "save_cas" /\ pc'[h] # pc[h] /\ status # Created
                 => /\ pc'[h] = "idle" /\ ret'[h] = Ok
                    /\ call'[h].io = {}
                    /\ status' = status /\ store' = store
            /\ pc[h] = "save_cas" /\ pc'[h] # pc[h] /\ status = Created
                 => pc'[h] = "save_read" /\ status' = Saved
            /\ pc'[h] \in {"save_read", "save_snapshot", "save_set"}
                 => call'[h].seen = Created
       /\ nset' > nset
            => /\ nset = 0
               /\ \E w \in Handles :
                    /\ pc[w] = "save_set" /\ call[w].seen = Created
                    /\ store' \in {store, MapInsert(store, hid[w], snap[w])}
       /\ nset' = nset
            => \A id \in DOMAIN store' : id \in DOMAIN store /\ store'[id] = store[id]
      ]_vars

C18_Witness ==
    \E h \in Handles :
        /\ call[h].op = "save" /\ Returned(h) /\ ret[h] = Ok
        /\ call[h].seen = Saved /\ call[h].io = {}
        /\ data_status
        /\ hid[h] \in DOMAIN store
        /\ store[hid[h]] # data

\* C19: a failing Storage remove makes renew and destroy return the error
\* at once; neither that step nor the check before it changes the id, the
\* status, the data, the store or the id generator, so the handle has the id
\* it entered with, and a later renew or destroy that finds the status below
\* its threshold issues the remove again.
C19_RemoveFailureChangesNothing ==
    [][\A h \in Handles :
         /\ pc[h] \in {"renew_remove", "destroy_remove"} /\ pc'[h] # pc[h]
            /\ Io("remove", hid[h], FALSE) \in call'[h].io
              => /\ pc'[h] = "idle" /\ ret'[h] = Err
                 /\ UNCHANGED << hid, status, data, data_status, store, nextId >>
         /\ pc[h] \in {"renew_load", "destroy_load"} /\ pc'[h] # pc[h]
              => UNCHANGED << hid, status, data, data_status, store, nextId >>
         /\ pc[h] = "renew_load" /\ pc'[h] # pc[h] /\ status < Renewed
              => pc'[h] = "renew_remove"
         /\ pc[h] = "destroy_load" /\ pc'[h] # pc[h] /\ status < Destroyed
              => pc'[h] = "destroy_remove"
         /\ call'[h].op \in {"renew", "destroy"}
            /\ Io("remove", call'[h].id0, FALSE) \in call'[h].io
              => /\ hid'[h] = call'[h].id0
                 /\ Generated(call'[h]) = {}
                 /\ pc'[h] = "idle" /\ ret'[h] = Err
         /\ call'[h].op = "destroy" /\ ret'[h] = Err
              => Io("remove", call'[h].id0, FALSE) \in call'[h].io
      ]_vars

C19_Witness ==
    \E h \in Handles :
        /\ call[h].op = "renew" /\ Returned(h) /\ ret[h] = Err
        /\ hid[h] = call[h].id0
        /\ status = call[h].st0
        /\ Io("remove", hid[h], FALSE) \in call[h].io
        /\ data # EmptyMap
        /\ hid[h] \in DOMAIN store

\* C20: once a destroy has returned Ok and no call is in flight, the store
\* holds no entry under the session's id.
C20_NoEntryAfterDestroy ==
    \A h \in Handles :
        (/\ call[h].op = "destroy" /\ Returned(h) /\ ret[h] = Ok
         /\ \A u \in Handles : pc[u] = "idle")
          => hid[h] \notin DOMAIN store

=============================================================================
